---- MODULE Spec2Model ----
(***************************************************************************)
(* Weather collection for racecourses: the feature derivation of           *)
(* weather.py, the periodic collector of collect_daily_weather.py and the  *)
(* schedule-driven collector of weather_collector.py.                      *)
(*                                                                         *)
(* Units.  Time is counted in clock ticks, TicksPerHour ticks to the hour. *)
(* Precipitation is counted in tenths of a unit (0.1 is 1), soil moisture  *)
(* in hundredths (0.15 is 15).  A Python None / SQL NULL / absent dict    *)
(* key is the empty tuple <<>>, a present value v is <<v>>.                *)
(***************************************************************************)
EXTENDS Integers, Sequences, FiniteSets, TLC

VARIABLES
    mode,                 \* which script runs: "periodic" or "scheduled"
    clock,                \* the wall clock, datetime.now(), in ticks
    pc,                   \* position of the process: idle, collect, save, exited
    runs,                 \* processes started so far
    races,                \* the schedule load_race_schedule returned to the run
    todo,                 \* venues_to_collect / upcoming_races of the run
    k,                    \* 1-based position of the loop in todo
    data,                 \* venue_data / race_data of the current entry
    success_count,
    fail_count,
    exit_status,          \* exit status of the last process
    escaped,              \* an exception left run_collection in the last process
    venue_daily_weather,  \* rows of table venue_daily_weather
    daily_seq,            \* AUTOINCREMENT counter of venue_daily_weather
    weather_updates,      \* rows of table weather_updates
    last,                 \* what the last step did: [op, fetched, wrote, committed]
    times,                \* hourly['time'] of the response
    precipitation,        \* hourly['precipitation']
    soil,                 \* hourly['soil_moisture_0_to_1cm']
    race_time_str,        \* the reference-hour key of the call
    derived,              \* the call has returned
    result                \* what the call returned

vars == <<mode, clock, pc, runs, races, todo, k, data, success_count, fail_count,
          exit_status, escaped, venue_daily_weather, daily_seq, weather_updates,
          last, times, precipitation, soil, race_time_str, derived, result>>

orchVars == <<mode, clock, pc, runs, races, todo, k, data, success_count, fail_count,
              exit_status, escaped, venue_daily_weather, daily_seq,
              weather_updates, last>>

featVars == <<times, precipitation, soil, race_time_str, derived, result>>

----------------------------------------------------------------------------
\* Bounds of the model: the last clock reading, the processes started per
\* script, the entries of a schedule file, the lengths of a response, the
\* largest surface moisture, and the clock readings that fall into one hour.
MaxClock == 2
MaxRuns == 2
MaxRaceRuns == 1
MaxSchedule == 2
MaxLen == 26
MinLen == 5
MaxSoil == 40
TicksPerHour == 2

\* Program constants: the 48 hour lookahead, the rainfall windows, the 0.1
\* rain threshold (in tenths) and the going thresholds (in hundredths).
HoursPerDay == 24
WindowHours == 48
Window3h == 3
Window6h == 6
Window24h == 24
RainThreshold == 1
FirmBelow == 15
GoodBelow == 25
SoftBelow == 35

None == <<>>
Some(x) == <<x>>
IsNone(o) == o = <<>>
Val(o) == o[1]

----------------------------------------------------------------------------
\* weather.py: the venue catalog, cut to two of its entries.
VENUE_COORDS ==
    [v \in {"Newbury", "Ascot"} |-> [country |-> "UK"]]

\* Iteration order of the catalog dict.
VenueOrder == <<"Newbury", "Ascot">>

test_venues == {"Newbury", "Cheltenham", "Churchill Downs"}

\* {k: v for k, v in VENUE_COORDS.items() if k in test_venues}, or the catalog.
venues_to_collect(test_mode) ==
    IF test_mode
    THEN SelectSeq(VenueOrder, LAMBDA v : v \in test_venues)
    ELSE VenueOrder

\* What get_comprehensive_weather can hand to a collector for reference time
\* ref: None, or a feature dict.  The collectors read the dict with
\* weather.get, so keys may be absent; temperature stands for the columns
\* that may be NULL, fetched_at is the one bound to a NOT NULL column.  The
\* collectors store the fetched_at text as it is and never read it.
TempVals == {15}
WeatherDicts(ref) ==
    [race_datetime : {ref},
     temperature : {None} \cup {Some(t) : t \in TempVals},
     fetched_at : {None, Some("fetched")}]

FetchOutcomes(ref) == {None} \cup {Some(w) : w \in WeatherDicts(ref)}

\* dict.get(key)
Get(w, key) == w[key]

----------------------------------------------------------------------------
\* weather.py: get_comprehensive_weather, from the parsed response on.
\* Python lists are 0-based: list[i] is the sequence's element i + 1.

At(list, i) == list[i + 1]

\* race_time_str in times
Contains(list, x) == \E i \in 1..Len(list) : list[i] = x

\* times.index(race_time_str): the first position holding x
IndexOf(list, x) == (CHOOSE i \in 1..Len(list) :
                        /\ list[i] = x
                        /\ \A j \in 1..(i - 1) : list[j] # x) - 1

Max(a, b) == IF a >= b THEN a ELSE b

\* sum(list[lo:hi]) for 0 <= lo, hi <= len(list)
RECURSIVE SumSlice(_, _, _)
SumSlice(list, lo, hi) ==
    IF lo >= hi THEN 0 ELSE At(list, hi - 1) + SumSlice(list, lo, hi - 1)

\* rainfall_Nh = sum(precipitation[max(0, idx-N):idx]) if idx >= N else 0
\* (variants: the clipped window summed below N; the window shifted to
\* include idx)
RainfallPartial(precip, i, n) == SumSlice(precip, Max(0, i - n), i)

RainfallInclusive(precip, i, n) ==
    IF i >= n THEN SumSlice(precip, Max(0, i - n) + 1, i + 1) ELSE 0

\* (variant: an hourly loss of 0.1 taken off the window, as net_moisture_24h
\* takes the evapotranspiration off rainfall_24h)
RainfallNet(precip, i, n) ==
    IF i >= n THEN SumSlice(precip, Max(0, i - n), i) - n * RainThreshold ELSE 0

Rainfall(precip, i, n) ==
    IF i >= n THEN SumSlice(precip, Max(0, i - n), i) ELSE 0

\* rainfall_1h and rainfall_7d
Rainfall1h(precip, i) == IF i > 0 THEN At(precip, i) ELSE 0
Rainfall7d(precip, i) == IF i > 0 THEN SumSlice(precip, 0, i) ELSE 0

\* for i in range(idx-1, -1, -1): break at the first value above 0.1, else count
RECURSIVE HoursSinceRainFrom(_, _)
HoursSinceRainFrom(precip, i) ==
    IF i < 0 THEN 0
    ELSE IF At(precip, i) > RainThreshold THEN 0
    ELSE 1 + HoursSinceRainFrom(precip, i - 1)

\* (variant: every dry hour before idx counted, not only the latest run)
RECURSIVE DryHoursBefore(_, _)
DryHoursBefore(precip, i) ==
    IF i < 0 THEN 0
    ELSE (IF At(precip, i) > RainThreshold THEN 0 ELSE 1) + DryHoursBefore(precip, i - 1)

HoursSinceRainTotal(precip, i) == DryHoursBefore(precip, i - 1)

HoursSinceRain(precip, i) == HoursSinceRainFrom(precip, i - 1)

\* the if / elif chain on soil_moisture_surface
\* (variant: <= at the thresholds)
PredictedGoingInclusive(m) ==
    IF m <= FirmBelow THEN "Firm"
    ELSE IF m <= GoodBelow THEN "Good"
    ELSE IF m <= SoftBelow THEN "Soft"
    ELSE "Heavy"

PredictedGoing(m) ==
    IF m < FirmBelow THEN "Firm"
    ELSE IF m < GoodBelow THEN "Good"
    ELSE IF m < SoftBelow THEN "Soft"
    ELSE "Heavy"

\* track_drying, track_wetting
\* (variant: <= in the drying comparison)
TrackDryingInclusive(moisture, i) ==
    IF i >= 3 THEN At(moisture, i) <= At(moisture, i - 3) ELSE FALSE

TrackDrying(moisture, i) ==
    IF i >= 3 THEN At(moisture, i) < At(moisture, i - 3) ELSE FALSE
TrackWetting(moisture, i) ==
    IF i >= 3 THEN At(moisture, i) > At(moisture, i - 3) ELSE FALSE

\* The result dict for a response whose time index holds the key; None
\* (logged "not in response") when it does not.
Features(tms, precip, moisture, key) ==
    IF Contains(tms, key)
    THEN LET i == IndexOf(tms, key) IN
         Some([rainfall_1h |-> Rainfall1h(precip, i),
               rainfall_3h |-> Rainfall(precip, i, Window3h),
               rainfall_6h |-> Rainfall(precip, i, Window6h),
               rainfall_24h |-> Rainfall(precip, i, Window24h),
               rainfall_7d |-> Rainfall7d(precip, i),
               hours_since_rain |-> HoursSinceRain(precip, i),
               soil_moisture_0_1cm |-> At(moisture, i),
               predicted_going |-> PredictedGoing(At(moisture, i)),
               track_drying |-> TrackDrying(moisture, i),
               track_wetting |-> TrackWetting(moisture, i)])
    ELSE None

----------------------------------------------------------------------------
\* collect_daily_weather.py

\* now.strftime('%Y-%m-%d') and now.hour
collection_date(now) == (now \div TicksPerHour) \div HoursPerDay
collection_hour(now) == (now \div TicksPerHour) % HoursPerDay

DailyKey(r) == <<r.venue, r.collection_date, r.collection_hour>>

\* The row save_to_database binds for venue_data at clock reading now.
DailyRow(id, vd, now) ==
    [id |-> id,
     venue |-> vd.venue,
     country |-> vd.country,
     collection_date |-> collection_date(now),
     collection_hour |-> collection_hour(now),
     collection_timestamp |-> now,
     temperature |-> Get(vd.weather, "temperature"),
     weather_fetched_at |-> Get(vd.weather, "fetched_at")]

\* NOT NULL columns of venue_daily_weather that a payload can leave empty.
DailyNotNullOk(row) == ~IsNone(row.weather_fetched_at)

\* INSERT OR REPLACE under UNIQUE(venue, collection_date, collection_hour):
\* the rows in conflict are deleted, then the new row is inserted.
\* (variant: an update in place that keeps the old temperature when the new
\* payload has none)
InsertMerge(table, row) ==
    LET old == {r \in table : DailyKey(r) = DailyKey(row)}
        merged == IF old = {} \/ ~IsNone(row.temperature) THEN row
                  ELSE [row EXCEPT !.temperature = (CHOOSE r \in old : TRUE).temperature]
    IN  {r \in table : DailyKey(r) # DailyKey(row)} \cup {merged}

InsertOrReplace(table, row) ==
    {r \in table : DailyKey(r) # DailyKey(row)} \cup {row}

\* conn.rollback() after a failed statement: the table as it was.
Rollback(table, row) == table

NoOp == [op |-> "none", fetched |-> FALSE, wrote |-> FALSE, committed |-> FALSE]
Did(op, f, w, c) == [op |-> op, fetched |-> f, wrote |-> w, committed |-> c]

\* An uncaught exception ends the process: traceback, exit status 1.
Crash ==
    /\ pc' = "exited"
    /\ exit_status' = 1
    /\ escaped' = TRUE

\* The start of a periodic process: main builds the collector, whose __init__
\* calls ensure_database (makedirs, sqlite3.connect, CREATE TABLE / INDEX IF
\* NOT EXISTS, all outside any try; existing rows are left alone), then
\* run_collection up to the loop.  When the database cannot be opened or is
\* not a database (db_ready false) the exception ends the process before
\* run_collection is called.
DailyStartRun ==
    /\ mode = "periodic"
    /\ pc \in {"idle", "exited"}
    /\ runs < MaxRuns
    /\ \E db_ready \in BOOLEAN : \E test_mode \in BOOLEAN :
         IF ~db_ready
         THEN /\ todo' = <<>>
              /\ Crash
         ELSE /\ todo' = venues_to_collect(test_mode)
              /\ escaped' = FALSE
              /\ pc' = "collect"
              /\ UNCHANGED exit_status
    /\ runs' = runs + 1
    /\ k' = 1
    /\ data' = None
    /\ success_count' = 0
    /\ fail_count' = 0
    /\ last' = Did("start", FALSE, FALSE, FALSE)
    /\ UNCHANGED <<mode, clock, races, venue_daily_weather, daily_seq,
                   weather_updates>>
    /\ UNCHANGED featVars

\* (variant of collect_venue_weather in the loop: a venue whose fetch failed is
\* fetched once more before it is counted)
DailyCollectRetry ==
    /\ mode = "periodic"
    /\ pc = "collect"
    /\ k <= Len(todo)
    /\ LET venue == todo[k]
           now == clock
       IN \E weather \in FetchOutcomes(now) :
            IF IsNone(weather)
            THEN /\ data' = None
                 /\ pc' = "collect"
                 /\ IF last.op = "collect"
                    THEN fail_count' = fail_count + 1 /\ k' = k + 1
                    ELSE UNCHANGED <<fail_count, k>>
            ELSE /\ data' = Some([venue |-> venue,
                                  country |-> VENUE_COORDS[venue].country,
                                  weather |-> Val(weather)])
                 /\ pc' = "save"
                 /\ UNCHANGED <<fail_count, k>>
    /\ last' = Did("collect", TRUE, FALSE, FALSE)
    /\ UNCHANGED <<mode, clock, runs, races, todo, success_count, exit_status, escaped,
                   venue_daily_weather, daily_seq, weather_updates>>
    /\ UNCHANGED featVars

\* collect_venue_weather(venue, coords): the clock is read, the features are
\* fetched for that reading; None (or an exception, caught) yields None and the
\* loop counts the venue as failed.
DailyCollect ==
    /\ mode = "periodic"
    /\ pc = "collect"
    /\ k <= Len(todo)
    /\ LET venue == todo[k]
           now == clock
       IN \E weather \in FetchOutcomes(now) :
            IF IsNone(weather)
            THEN /\ data' = None
                 /\ fail_count' = fail_count + 1
                 /\ k' = k + 1
                 /\ pc' = "collect"
            ELSE /\ data' = Some([venue |-> venue,
                                  country |-> VENUE_COORDS[venue].country,
                                  weather |-> Val(weather)])
                 /\ pc' = "save"
                 /\ UNCHANGED <<fail_count, k>>
    /\ last' = Did("collect", TRUE, FALSE, FALSE)
    /\ UNCHANGED <<mode, clock, runs, races, todo, success_count, exit_status, escaped,
                   venue_daily_weather, daily_seq, weather_updates>>
    /\ UNCHANGED featVars

\* save_to_database(venue_data) and the tally of the loop.  The clock is read
\* again for the key.  sqlite3.connect stands before the try: when the
\* database cannot be opened (db_open false) the exception leaves
\* save_to_database, run_collection and main.  Inside the try the statement
\* fails on a NOT NULL violation or when the database refuses the write (db_ok
\* false); it is then rolled back and the call returns False.
DailySave ==
    /\ mode = "periodic"
    /\ pc = "save"
    /\ \E db_open \in BOOLEAN : \E db_ok \in BOOLEAN :
         LET vd == Val(data)
             now == clock
             row == DailyRow(daily_seq + 1, vd, now)
             committed == db_ok /\ DailyNotNullOk(row)
         IN IF ~db_open
            THEN /\ Crash
                 /\ last' = Did("save", FALSE, FALSE, FALSE)
                 /\ UNCHANGED <<venue_daily_weather, daily_seq, success_count,
                                fail_count, k>>
            ELSE /\ IF committed
                    THEN /\ venue_daily_weather' = InsertOrReplace(venue_daily_weather, row)
                         /\ daily_seq' = daily_seq + 1
                         /\ success_count' = success_count + 1
                         /\ UNCHANGED fail_count
                    ELSE /\ venue_daily_weather' = Rollback(venue_daily_weather, row)
                         /\ fail_count' = fail_count + 1
                         /\ UNCHANGED <<daily_seq, success_count>>
                 /\ last' = Did("save", FALSE, TRUE, committed)
                 /\ k' = k + 1
                 /\ pc' = "collect"
                 /\ UNCHANGED <<exit_status, escaped>>
    /\ UNCHANGED <<mode, clock, runs, races, todo, data, weather_updates>>
    /\ UNCHANGED featVars

\* The end of run_collection and main.  After the summary the database is
\* opened and read for its statistics, outside any try: when that fails
\* (stats_ok false) the exception leaves run_collection and main; else main
\* reaches exit(0 if failed == 0 else 1).
DailyFinish ==
    /\ mode = "periodic"
    /\ pc = "collect"
    /\ k > Len(todo)
    /\ \E stats_ok \in BOOLEAN :
         IF stats_ok
         THEN /\ exit_status' = IF fail_count = 0 THEN 0 ELSE 1
              /\ pc' = "exited"
              /\ UNCHANGED escaped
         ELSE Crash
    /\ last' = Did("finish", FALSE, FALSE, FALSE)
    /\ UNCHANGED <<mode, clock, runs, races, todo, k, data, success_count, fail_count,
                   venue_daily_weather, daily_seq, weather_updates>>
    /\ UNCHANGED featVars

\* Time passes.
Tick ==
    /\ clock < MaxClock
    /\ clock' = clock + 1
    /\ last' = NoOp
    /\ UNCHANGED <<mode, pc, runs, races, todo, k, data, success_count, fail_count,
                   exit_status, escaped, venue_daily_weather, daily_seq,
                   weather_updates>>
    /\ UNCHANGED featVars

----------------------------------------------------------------------------
\* weather_collector.py

\* The race_date and race_time strings the model's schedules use, with the day
\* and the hour datetime.fromisoformat reads from them.  Any other string does
\* not parse.
DateTable == ("2025-10-01" :> 0) @@ ("2025-10-03" :> 2)
TimeTable == ("00:00" :> 0) @@ ("01:00" :> 1)

HasKey(race, key) == key \in DOMAIN race

\* datetime.fromisoformat(f"{race['race_date']}T{race['race_time']}:00") in
\* ticks; None when the lookup raises KeyError or the parse raises ValueError.
RaceDatetime(race) ==
    IF /\ HasKey(race, "race_date")
       /\ HasKey(race, "race_time")
       /\ race.race_date \in DOMAIN DateTable
       /\ race.race_time \in DOMAIN TimeTable
    THEN Some((DateTable[race.race_date] * HoursPerDay + TimeTable[race.race_time])
              * TicksPerHour)
    ELSE None

\* Schedule entries: well formed ones, one with an unknown venue (starting at
\* midnight, the clock's first reading), and entries with an unparseable or a
\* missing field.
RaceNewbury ==
    [market_id |-> "1.101", venue |-> "Newbury",
     race_date |-> "2025-10-01", race_time |-> "01:00"]
RaceAscot ==
    [market_id |-> "1.102", venue |-> "Ascot",
     race_date |-> "2025-10-03", race_time |-> "01:00"]
RaceUnknownVenue ==
    [market_id |-> "1.103", venue |-> "Nowhere",
     race_date |-> "2025-10-01", race_time |-> "00:00"]
RaceBadTime ==
    [market_id |-> "1.104", venue |-> "Newbury",
     race_date |-> "2025-10-01", race_time |-> "2pm"]
RaceNoDate ==
    [market_id |-> "1.105", venue |-> "Newbury", race_time |-> "01:00"]
RaceNoMarket ==
    [venue |-> "Newbury", race_date |-> "2025-10-01", race_time |-> "01:00"]

ScheduleEntries ==
    {RaceNewbury, RaceAscot, RaceUnknownVenue, RaceBadTime, RaceNoDate, RaceNoMarket}

\* What load_race_schedule can return: the JSON array of the schedule file.
Schedules == UNION {[1..n -> ScheduleEntries] : n \in 0..MaxSchedule}

\* now <= race_dt <= cutoff, with cutoff = now + timedelta(hours=48)
\* (variant: both ends excluded)
InWindowExclusive(now, race_dt) ==
    /\ now < race_dt
    /\ race_dt < now + WindowHours * TicksPerHour

InWindow(now, race_dt) ==
    /\ now <= race_dt
    /\ race_dt <= now + WindowHours * TicksPerHour

\* The filter loop of run_collection: the entries it keeps.
upcoming_races(schedule, now) ==
    SelectSeq(schedule, LAMBDA race : InWindow(now, Val(RaceDatetime(race))))

\* The filter loop raises on an entry whose date or time is missing or unparseable.
FilterRaises(schedule) ==
    \E i \in 1..Len(schedule) : IsNone(RaceDatetime(schedule[i]))

\* collect_weather_for_race raises KeyError before it looks at the venue.
CollectRaises(race) ==
    \/ ~HasKey(race, "market_id")
    \/ ~HasKey(race, "venue")
    \/ IsNone(RaceDatetime(race))

\* venue in VENUE_COORDS
\* (variant: the test is left out)
KnownVenueAlways(venue) == TRUE

KnownVenue(venue) == venue \in DOMAIN VENUE_COORDS

\* The row save_weather_update binds for race_data at clock reading now.
UpdateRow(id, rd, now) ==
    [id |-> id,
     market_id |-> rd.market_id,
     venue |-> rd.venue,
     race_date |-> rd.race_date,
     race_time |-> rd.race_time,
     temperature |-> Get(rd.weather, "temperature"),
     weather_fetched_at |-> Get(rd.weather, "fetched_at"),
     collection_timestamp |-> now]

UpdateKey(r) == <<r.market_id, r.collection_timestamp>>

UpdateNotNullOk(row) == ~IsNone(row.weather_fetched_at)

\* INSERT INTO weather_updates: the table has no UNIQUE constraint, the row is
\* added under the next id.
Insert(table, row) == table \cup {row}

\* The start of a scheduled process: main builds the collector, whose
\* __init__ calls ensure_database (makedirs, sqlite3.connect, CREATE TABLE /
\* INDEX IF NOT EXISTS, all outside any try), then run_collection up to the
\* loop: load the schedule, read the clock once, keep the races that start
\* within 48 hours.  When the database cannot be opened or is not a database
\* (db_ready false) the exception ends the process before the schedule is
\* loaded; a schedule file that json.load cannot read ends it the same way.
RaceStartRun ==
    /\ mode = "scheduled"
    /\ pc \in {"idle", "exited"}
    /\ runs < MaxRaceRuns
    /\ runs' = runs + 1
    /\ k' = 1
    /\ data' = None
    /\ success_count' = 0
    /\ fail_count' = 0
    /\ \E db_ready \in BOOLEAN :
         IF ~db_ready
         THEN /\ races' = races
              /\ todo' = <<>>
              /\ Crash
         ELSE /\ races' \in Schedules
              /\ LET now == clock IN
                   IF races' = <<>>
                   THEN /\ todo' = <<>>
                        /\ pc' = "exited"
                        /\ exit_status' = 0
                        /\ escaped' = FALSE
                   ELSE IF FilterRaises(races')
                   THEN /\ todo' = <<>>
                        /\ Crash
                   ELSE IF upcoming_races(races', now) = <<>>
                   THEN /\ todo' = <<>>
                        /\ pc' = "exited"
                        /\ exit_status' = 0
                        /\ escaped' = FALSE
                   ELSE /\ todo' = upcoming_races(races', now)
                        /\ pc' = "collect"
                        /\ escaped' = FALSE
                        /\ UNCHANGED exit_status
    /\ last' = Did("start", FALSE, FALSE, FALSE)
    /\ UNCHANGED <<mode, clock, venue_daily_weather, daily_seq, weather_updates>>
    /\ UNCHANGED featVars

\* collect_weather_for_race(race): an entry without market_id or venue raises
\* out of run_collection; an unknown venue returns None without a fetch; else
\* the features are fetched for the race's start time.
RaceCollect ==
    /\ mode = "scheduled"
    /\ pc = "collect"
    /\ k <= Len(todo)
    /\ LET race == todo[k] IN
       IF CollectRaises(race)
       THEN /\ Crash
            /\ last' = Did("collect", FALSE, FALSE, FALSE)
            /\ UNCHANGED <<k, data, fail_count>>
       ELSE IF ~KnownVenue(race.venue)
       THEN /\ data' = None
            /\ fail_count' = fail_count + 1
            /\ k' = k + 1
            /\ last' = Did("collect", FALSE, FALSE, FALSE)
            /\ UNCHANGED <<pc, exit_status, escaped>>
       ELSE \E weather \in FetchOutcomes(Val(RaceDatetime(race))) :
            /\ last' = Did("collect", TRUE, FALSE, FALSE)
            /\ UNCHANGED <<exit_status, escaped>>
            /\ IF IsNone(weather)
               THEN /\ data' = None
                    /\ fail_count' = fail_count + 1
                    /\ k' = k + 1
                    /\ pc' = "collect"
               ELSE /\ data' = Some([market_id |-> race.market_id,
                                     venue |-> race.venue,
                                     race_date |-> race.race_date,
                                     race_time |-> race.race_time,
                                     weather |-> Val(weather)])
                    /\ pc' = "save"
                    /\ UNCHANGED <<fail_count, k>>
    /\ UNCHANGED <<mode, clock, runs, races, todo, success_count, venue_daily_weather,
                   daily_seq, weather_updates>>
    /\ UNCHANGED featVars

\* (variant of save_weather_update in the loop: the call reports success after
\* a rollback as well)
RaceSaveReportsSuccess ==
    /\ mode = "scheduled"
    /\ pc = "save"
    /\ \E db_open \in BOOLEAN : \E db_ok \in BOOLEAN :
         LET rd == Val(data)
             collection_time == clock
             row == UpdateRow(Cardinality(weather_updates) + 1, rd, collection_time)
             committed == db_ok /\ UpdateNotNullOk(row)
         IN IF ~db_open
            THEN /\ Crash
                 /\ last' = Did("save", FALSE, FALSE, FALSE)
                 /\ UNCHANGED <<weather_updates, success_count, fail_count, k>>
            ELSE /\ IF committed
                    THEN weather_updates' = Insert(weather_updates, row)
                    ELSE weather_updates' = Rollback(weather_updates, row)
                 /\ success_count' = success_count + 1
                 /\ UNCHANGED fail_count
                 /\ last' = Did("save", FALSE, TRUE, committed)
                 /\ k' = k + 1
                 /\ pc' = "collect"
                 /\ UNCHANGED <<exit_status, escaped>>
    /\ UNCHANGED <<mode, clock, runs, races, todo, data, venue_daily_weather, daily_seq>>
    /\ UNCHANGED featVars

\* save_weather_update(race_data) and the tally of the loop.  The clock is read
\* for collection_timestamp.  sqlite3.connect stands before the try: when the
\* database cannot be opened (db_open false) the exception leaves
\* save_weather_update, run_collection and main.  Inside the try the statement
\* fails on a NOT NULL violation or when the database refuses the write (db_ok
\* false); it is then rolled back and the call returns False.
RaceSave ==
    /\ mode = "scheduled"
    /\ pc = "save"
    /\ \E db_open \in BOOLEAN : \E db_ok \in BOOLEAN :
         LET rd == Val(data)
             collection_time == clock
             row == UpdateRow(Cardinality(weather_updates) + 1, rd, collection_time)
             committed == db_ok /\ UpdateNotNullOk(row)
         IN IF ~db_open
            THEN /\ Crash
                 /\ last' = Did("save", FALSE, FALSE, FALSE)
                 /\ UNCHANGED <<weather_updates, success_count, fail_count, k>>
            ELSE /\ IF committed
                    THEN /\ weather_updates' = Insert(weather_updates, row)
                         /\ success_count' = success_count + 1
                         /\ UNCHANGED fail_count
                    ELSE /\ weather_updates' = Rollback(weather_updates, row)
                         /\ fail_count' = fail_count + 1
                         /\ UNCHANGED success_count
                 /\ last' = Did("save", FALSE, TRUE, committed)
                 /\ k' = k + 1
                 /\ pc' = "collect"
                 /\ UNCHANGED <<exit_status, escaped>>
    /\ UNCHANGED <<mode, clock, runs, races, todo, data, venue_daily_weather, daily_seq>>
    /\ UNCHANGED featVars

\* The end of run_collection and main: main returns, the exit status is 0.
RaceFinish ==
    /\ mode = "scheduled"
    /\ pc = "collect"
    /\ k > Len(todo)
    /\ exit_status' = 0
    /\ pc' = "exited"
    /\ last' = Did("finish", FALSE, FALSE, FALSE)
    /\ UNCHANGED <<mode, clock, runs, races, todo, k, data, success_count, fail_count,
                   escaped, venue_daily_weather, daily_seq, weather_updates>>
    /\ UNCHANGED featVars

----------------------------------------------------------------------------
Init ==
    /\ mode \in {"periodic", "scheduled"}
    /\ clock = 0
    /\ pc = "idle"
    /\ runs = 0
    /\ races = <<>>
    /\ todo = <<>>
    /\ k = 1
    /\ data = None
    /\ success_count = 0
    /\ fail_count = 0
    /\ exit_status = 0
    /\ escaped = FALSE
    /\ venue_daily_weather = {}
    /\ daily_seq = 0
    /\ weather_updates = {}
    /\ last = NoOp
    /\ times = <<>>
    /\ precipitation = <<>>
    /\ soil = <<>>
    /\ race_time_str = 0
    /\ derived = FALSE
    /\ result = None

Next ==
    \/ DailyStartRun
    \/ DailyCollect
    \/ DailySave
    \/ DailyFinish
    \/ RaceStartRun
    \/ RaceCollect
    \/ RaceSave
    \/ RaceFinish
    \/ Tick

Spec == Init /\ [][Next]_vars

----------------------------------------------------------------------------
\* The derivation on its own: responses drawn from bounded families, one call
\* of get_comprehensive_weather per response.

\* An hourly time index of n contiguous hours, keyed 0 .. n-1.
Hours(n) == [i \in 1..n |-> i - 1]

\* Precipitation series of length n: a baseline of 0 or 0.1 with up to two
\* wetter hours (position 0 stands for "no such hour").
WetVals == {2, 20}
PrecipSeries(n) ==
    {[i \in 1..n |-> IF i = p1 THEN v1 ELSE IF i = p2 THEN v2 ELSE b] :
        p1 \in 0..n, p2 \in 0..n, v1 \in WetVals, v2 \in WetVals, b \in {0, RainThreshold}}

\* Surface moisture series of length n: cur at the hour at, past elsewhere.
SoilSeries(n, at, cur, past) == [i \in 1..n |-> IF i = at + 1 THEN cur ELSE past]

Near(m) == {x \in {m - 1, m, m + 1} : x >= 0 /\ x <= MaxSoil}

Lens == {MinLen, MaxLen}

\* The collectors' state, at rest while only the derivation runs.
OrchAtRest ==
    /\ mode = "periodic"
    /\ clock = 0
    /\ pc = "idle"
    /\ runs = 0
    /\ races = <<>>
    /\ todo = <<>>
    /\ k = 1
    /\ data = None
    /\ success_count = 0
    /\ fail_count = 0
    /\ exit_status = 0
    /\ escaped = FALSE
    /\ venue_daily_weather = {}
    /\ daily_seq = 0
    /\ weather_updates = {}
    /\ last = NoOp

\* Responses that vary in their precipitation.
InitRainfall ==
    /\ OrchAtRest
    /\ derived = FALSE
    /\ result = None
    /\ \E n \in Lens :
         /\ times = Hours(n)
         /\ race_time_str \in 0..n
         /\ precipitation \in PrecipSeries(n)
         /\ soil = SoilSeries(n, 0, FirmBelow, FirmBelow)

\* Responses that vary in their surface moisture.
InitSoil ==
    /\ OrchAtRest
    /\ derived = FALSE
    /\ result = None
    /\ times = Hours(MinLen)
    /\ race_time_str \in 0..MinLen
    /\ precipitation = [i \in 1..MinLen |-> 0]
    /\ \E cur \in 0..MaxSoil : \E past \in Near(cur) :
         soil = SoilSeries(MinLen, race_time_str, cur, past)

\* One call of get_comprehensive_weather on the response.
Derive ==
    /\ ~derived
    /\ result' = Features(times, precipitation, soil, race_time_str)
    /\ derived' = TRUE
    /\ UNCHANGED <<times, precipitation, soil, race_time_str>>
    /\ UNCHANGED orchVars

\* The next call for the same reference hour: the surface moisture of that
\* hour has changed in the response.
DeriveAgain ==
    /\ derived
    /\ Contains(times, race_time_str)
    /\ \E cur \in 0..MaxSoil :
         /\ soil' = [soil EXCEPT ![IndexOf(times, race_time_str) + 1] = cur]
         /\ result' = Features(times, precipitation, soil', race_time_str)
    /\ UNCHANGED <<times, precipitation, race_time_str, derived>>
    /\ UNCHANGED orchVars

\* Time indexes of n entries in which one entry carries another hour's label:
\* that hour is then listed twice and the entry's own hour not at all (label n
\* is an hour past the end, listed once).
TimeIndexes(n) ==
    {[i \in 1..n |-> IF i = p THEN v ELSE i - 1] : p \in 1..n, v \in 0..n}

\* Responses that vary in their time index; the surface moisture tells the
\* entries apart.
InitIndex ==
    /\ OrchAtRest
    /\ derived = FALSE
    /\ result = None
    /\ times \in TimeIndexes(MinLen)
    /\ race_time_str \in 0..MinLen
    /\ precipitation = [i \in 1..MinLen |-> 0]
    /\ soil = [i \in 1..MinLen |-> i]

NextIndex == Derive

SpecIndex == InitIndex /\ [][NextIndex]_vars

NextRainfall == Derive

SpecRainfall == InitRainfall /\ [][NextRainfall]_vars

NextSoil ==
    \/ Derive
    \/ DeriveAgain

SpecSoil == InitSoil /\ [][NextSoil]_vars

----------------------------------------------------------------------------
\* Properties of the derivation.

\* The reference index of the call, when the key is in the time index.
Idx == IndexOf(times, race_time_str)

Returned == derived /\ ~IsNone(result)

R == Val(result)

\* The precipitation values at indices from .. to, added up.
RECURSIVE SumHours(_, _, _)
SumHours(precip, from, to) ==
    IF from > to THEN 0 ELSE At(precip, from) + SumHours(precip, from + 1, to)

RainfallOf(n) ==
    IF n = Window3h THEN R.rainfall_3h
    ELSE IF n = Window6h THEN R.rainfall_6h
    ELSE R.rainfall_24h

Windows == {Window3h, Window6h, Window24h}

\* C7: for N in {3, 6, 24}, rainfall_Nh is the sum of the precipitation at
\* indices idx-N .. idx-1 (idx itself excluded) when idx >= N and 0 when
\* idx < N; precipitation [0,0,2,0,0] with idx 4 gives rainfall_3h = 2.
C7_RainfallWindow ==
    Returned =>
        /\ \A n \in Windows :
             RainfallOf(n) = IF Idx >= n
                             THEN SumHours(precipitation, Idx - n, Idx - 1)
                             ELSE 0
        /\ (precipitation = <<0, 0, 20, 0, 0>> /\ Idx = 4) => R.rainfall_3h = 20

C7_Witness ==
    /\ Returned
    /\ precipitation = <<0, 0, 20, 0, 0>>
    /\ Idx = 4
    /\ R.rainfall_3h = 20

\* C8 as stated: rainfall_Nh is 0 if and only if idx < N.
C8_ZeroIffBelowWindow ==
    Returned => \A n \in Windows : (RainfallOf(n) = 0) <=> (Idx < n)

\* C8 as amended: rainfall_Nh is 0 whenever idx < N, whatever fell before;
\* when idx >= N it is 0 exactly when the window's values add up to 0 (for a
\* series without negative values: when no hour of the window had any).
C8_ZeroBelowWindow ==
    Returned =>
        \A n \in Windows :
            /\ Idx < n => RainfallOf(n) = 0
            /\ Idx >= n =>
                 ((RainfallOf(n) = 0) <=>
                    (\A j \in (Idx - n)..(Idx - 1) : At(precipitation, j) = 0))

C8_Witness ==
    /\ Returned
    /\ Idx > 0
    /\ Idx < Window3h
    /\ R.rainfall_7d > 0
    /\ R.rainfall_3h = 0

\* C9: hours_since_rain counts the consecutive hours immediately before idx,
\* scanning back from idx-1, with precipitation <= 0.1; it lies in 0 .. idx
\* and equals idx iff no hour before idx has precipitation > 0.1.
C9_HoursSinceRain ==
    Returned =>
        LET h == R.hours_since_rain IN
        /\ 0 <= h
        /\ h <= Idx
        /\ \A j \in (Idx - h)..(Idx - 1) : At(precipitation, j) <= RainThreshold
        /\ h < Idx => At(precipitation, Idx - h - 1) > RainThreshold
        /\ (h = Idx) <=> (\A j \in 0..(Idx - 1) : At(precipitation, j) <= RainThreshold)

C9_Witness ==
    /\ Returned
    /\ R.hours_since_rain > 0
    /\ R.hours_since_rain < Idx
    /\ \E j \in 0..(Idx - 1) : At(precipitation, j) = RainThreshold
    /\ \E j \in 0..(Idx - R.hours_since_rain - 2) : At(precipitation, j) <= RainThreshold

GoingRank(label) ==
    IF label = "Firm" THEN 0
    ELSE IF label = "Good" THEN 1
    ELSE IF label = "Soft" THEN 2
    ELSE 3

GoingRanges ==
    Returned =>
        LET m == At(soil, Idx)
            g == R.predicted_going
        IN /\ g \in {"Firm", "Good", "Soft", "Heavy"}
           /\ (g = "Firm") <=> (m < 15)
           /\ (g = "Good") <=> (15 <= m /\ m < 25)
           /\ (g = "Soft") <=> (25 <= m /\ m < 35)
           /\ (g = "Heavy") <=> (m >= 35)
           /\ m = 20 => g = "Good"

GoingMonotone ==
    (Returned /\ Returned' /\ At(soil, Idx) <= At(soil', Idx'))
        => GoingRank(R.predicted_going) <= GoingRank(R'.predicted_going)

\* C10: predicted_going classifies the surface moisture m at the reference
\* index into exactly one of four labels: m < 0.15 Firm, 0.15 <= m < 0.25 Good,
\* 0.25 <= m < 0.35 Soft, m >= 0.35 Heavy; a larger m never yields a drier
\* label; m = 0.20 gives Good.
C10_PredictedGoing == [](GoingRanges) /\ [][GoingMonotone]_vars

C10_Witness ==
    /\ Returned
    /\ At(soil, Idx) = 20
    /\ R.predicted_going = "Good"

\* C11: track_drying and track_wetting are never both true; when idx >= 3,
\* track_drying holds iff the surface moisture at idx is less than at idx-3
\* and track_wetting iff it is greater; both are false on a tie and whenever
\* idx < 3.
C11_TrackTrend ==
    Returned =>
        LET cur == At(soil, Idx) IN
        /\ ~(R.track_drying /\ R.track_wetting)
        /\ Idx >= 3 =>
             /\ R.track_drying <=> (cur < At(soil, Idx - 3))
             /\ R.track_wetting <=> (cur > At(soil, Idx - 3))
             /\ cur = At(soil, Idx - 3) => (~R.track_drying /\ ~R.track_wetting)
        /\ Idx < 3 => (~R.track_drying /\ ~R.track_wetting)

\* A tie three hours apart: neither flag is set.
C11_Witness ==
    /\ Returned
    /\ Idx >= 3
    /\ At(soil, Idx) = At(soil, Idx - 3)
    /\ ~R.track_drying
    /\ ~R.track_wetting

\* C14: for a precipitation series whose values are all non-negative, and any
\* reference index, each of rainfall_1h, rainfall_3h, rainfall_6h,
\* rainfall_24h and rainfall_7d is >= 0.
C14_RainfallNonNegative ==
    (Returned /\ \A j \in 1..Len(precipitation) : precipitation[j] >= 0) =>
        /\ R.rainfall_1h >= 0
        /\ R.rainfall_3h >= 0
        /\ R.rainfall_6h >= 0
        /\ R.rainfall_24h >= 0
        /\ R.rainfall_7d >= 0

\* A full day before the reference hour, rain in it, none in the last six
\* hours.
C14_Witness ==
    /\ Returned
    /\ \A j \in 1..Len(precipitation) : precipitation[j] >= 0
    /\ Idx >= Window24h
    /\ R.rainfall_7d > 0
    /\ R.rainfall_24h > 0
    /\ R.rainfall_6h = 0
    /\ R.rainfall_1h = 0

\* How often the key is listed in the time index.
KeyCount == Cardinality({i \in 1..Len(times) : times[i] = race_time_str})

\* C12: derivation succeeds only when the reference-hour key appears exactly
\* once in the time index; when it is absent or listed more than once the
\* call yields no feature record.
C12_KeyExactlyOnce ==
    derived => (KeyCount # 1 => IsNone(result))

----------------------------------------------------------------------------
\* Properties of the collectors and their stores.

\* A step of the process (the clock stands still), as opposed to time passing.
ProcessStep == clock' = clock

\* The step is a call of save_to_database / save_weather_update.
SaveStep == pc = "save" /\ ProcessStep
Commits == SaveStep /\ success_count' = success_count + 1
FailsToWrite == SaveStep /\ success_count' = success_count

DailyUnique ==
    \A r1, r2 \in venue_daily_weather : DailyKey(r1) = DailyKey(r2) => r1 = r2

\* What a committed save_to_database leaves behind: one row under the key of
\* the clock reading, every column from the payload just written, an absent
\* field empty; rows under other keys as they were.  Any other step leaves
\* the table alone.
DailyReplace ==
    IF mode = "periodic" /\ Commits
    THEN LET vd == Val(data)
             key == <<vd.venue, collection_date(clock), collection_hour(clock)>>
             now_at_key == {r \in venue_daily_weather' : DailyKey(r) = key}
         IN /\ Cardinality(now_at_key) = 1
            /\ \A r \in now_at_key :
                 /\ r.country = vd.country
                 /\ r.collection_timestamp = clock
                 /\ r.temperature = vd.weather.temperature
                 /\ r.weather_fetched_at = vd.weather.fetched_at
            /\ {r \in venue_daily_weather' : DailyKey(r) # key}
                 = {r \in venue_daily_weather : DailyKey(r) # key}
    ELSE venue_daily_weather' = venue_daily_weather

\* C1: in the periodic store there is at most one row per (venue,
\* collection_date, collection_hour); a write under an existing key leaves
\* exactly one row for it, every column equal to the payload written last, a
\* field the payload lacks stored empty and not carried over.
C1_DailyUpsert == [](DailyUnique) /\ [][DailyReplace]_vars

\* A key has been written twice: the second row replaced the first, and its
\* payload had no temperature.
C1_Witness ==
    /\ mode = "periodic"
    /\ last.op = "save"
    /\ last.committed
    /\ daily_seq >= 2
    /\ Cardinality(venue_daily_weather) = 1
    /\ \A r \in venue_daily_weather : r.id = daily_seq /\ IsNone(r.temperature)

\* C2: no two rows of weather_updates share (market_id, collection_timestamp);
\* a second write under an existing pair replaces the row.
C2_UpdatesUnique ==
    \A r1, r2 \in weather_updates : UpdateKey(r1) = UpdateKey(r2) => r1 = r2

\* No step that handles an entry ends the process by an exception: not the
\* loading and filtering of a schedule with a malformed entry, not a collect
\* and not a save; and a run that reaches its summary has tallied every
\* entry selected for it.
NoEntryAbortsRun ==
    /\ (runs' = runs + 1 /\ escaped') =>
         \A i \in 1..Len(races') :
             /\ {"race_date", "race_time"} \subseteq DOMAIN races'[i]
             /\ races'[i].race_date \in DOMAIN DateTable
             /\ races'[i].race_time \in DOMAIN TimeTable
    /\ (pc \in {"collect", "save"} /\ escaped') => k > Len(todo)
    /\ last'.op = "finish" => success_count + fail_count = Len(todo)

\* C3: no error raised while handling an entry escapes run_collection, and
\* every entry selected for the run is attempted and tallied.
C3_NoEntryAbortsRun == [][NoEntryAbortsRun]_vars

\* C4: in scheduled mode a retained entry whose venue is not in the catalog
\* is skipped: no fetch, no row, fail_count up by exactly one, success_count
\* unchanged, and the loop goes on to the next entry.
UnknownVenueSkipped ==
    (/\ mode = "scheduled"
     /\ pc = "collect"
     /\ ProcessStep
     /\ k <= Len(todo)
     /\ HasKey(todo[k], "market_id")
     /\ HasKey(todo[k], "venue")
     /\ todo[k].venue \notin {"Newbury", "Ascot"})
    => /\ ~last'.fetched
       /\ ~last'.wrote
       /\ weather_updates' = weather_updates
       /\ fail_count' = fail_count + 1
       /\ success_count' = success_count
       /\ k' = k + 1
       /\ pc' = "collect"
       /\ ~escaped'

C4_UnknownVenueSkipped == [][UnknownVenueSkipped]_vars

C4_Witness ==
    /\ mode = "scheduled"
    /\ pc = "collect"
    /\ k = 2
    /\ Len(todo) = 2
    /\ todo[1] = RaceUnknownVenue
    /\ todo[2] = RaceNewbury
    /\ fail_count = 1
    /\ success_count = 0
    /\ ~last.fetched
    /\ weather_updates = {}

\* C5: a write that fails (a save_to_database / save_weather_update call that
\* commits nothing) is rolled back, returns failure, is counted as one failure
\* and leaves every committed row as it was; a committed write changes no row
\* under another key; collecting (a fetch, a failed fetch, a skipped entry)
\* changes no row.
WriteFailureLocal ==
    /\ FailsToWrite =>
         /\ venue_daily_weather' = venue_daily_weather
         /\ weather_updates' = weather_updates
         /\ fail_count' = fail_count + 1
    /\ (Commits /\ mode = "periodic") =>
         /\ \A r \in venue_daily_weather :
              DailyKey(r) # <<Val(data).venue, collection_date(clock), collection_hour(clock)>>
                 => r \in venue_daily_weather'
         /\ weather_updates' = weather_updates
    /\ (Commits /\ mode = "scheduled") =>
         /\ weather_updates \subseteq weather_updates'
         /\ venue_daily_weather' = venue_daily_weather
    /\ ~SaveStep =>
         /\ venue_daily_weather' = venue_daily_weather
         /\ weather_updates' = weather_updates

C5_WriteFailureLocal == [][WriteFailureLocal]_vars

\* C6: in either mode the exit status is 0 if every entry of the run
\* succeeded and 1 if at least one failed.
C6_ExitStatus ==
    (pc = "exited" /\ runs > 0) =>
        /\ (Len(todo) > 0 /\ success_count = Len(todo)) => exit_status = 0
        /\ fail_count > 0 => exit_status = 1

\* The start time of a schedule entry, in ticks.
StartTime(race) ==
    (DateTable[race.race_date] * 24 + TimeTable[race.race_time]) * TicksPerHour

\* The step loads the schedule and filters it.
StartsRaceRun == mode = "scheduled" /\ runs' = runs + 1

\* The loop of a scheduled run is under way.
InRaceLoop == mode = "scheduled" /\ pc \in {"collect", "save"}

WindowFilter ==
    /\ (StartsRaceRun /\ ~escaped') =>
         /\ todo' = SelectSeq(races', LAMBDA race :
                        /\ clock <= StartTime(race)
                        /\ StartTime(race) <= clock + 48 * TicksPerHour)
         /\ ~last'.fetched
         /\ ~last'.wrote
         /\ weather_updates' = weather_updates
         /\ success_count' = 0
         /\ fail_count' = 0
    /\ InRaceLoop =>
         /\ todo' = todo
         /\ races' = races
    /\ (mode = "scheduled" /\ (last'.fetched \/ last'.wrote)) =>
         /\ InRaceLoop
         /\ k <= Len(todo)
         /\ last'.wrote => Val(data).market_id = todo[k].market_id
    /\ (InRaceLoop /\ pc' = "exited" /\ ~escaped') =>
         /\ k = Len(todo) + 1
         /\ success_count + fail_count = Len(todo)

\* C13: in scheduled mode, in a run that no exception leaves, an entry is
\* attempted if and only if its start time t satisfies now <= t <= now + 48h
\* (both ends included), with now read once per run: the entries kept at the
\* start are exactly those, the selection stays as it is while the clock
\* moves on, every fetch and every write is for a kept entry, and the tally
\* at the end counts the kept entries and no others.
C13_WindowFilter == [][WindowFilter]_vars

\* A run has ended that kept the race starting exactly 48 hours after its
\* clock reading and dropped the one that had started before it.
C13_Witness ==
    /\ mode = "scheduled"
    /\ pc = "exited"
    /\ last.op = "finish"
    /\ races = <<RaceUnknownVenue, RaceAscot>>
    /\ todo = <<RaceAscot>>
    /\ clock = StartTime(RaceAscot) - 48 * TicksPerHour
    /\ success_count = 1
    /\ fail_count = 0

\* The loop of a run is under way, and the step is not the start of a run.
InLoop == pc \in {"collect", "save"} /\ runs' = runs

\* The payload d belongs to the entry the loop is at.
PayloadOfEntry(d) ==
    IF mode = "periodic"
    THEN d.venue = todo[k]
    ELSE d.market_id = todo[k].market_id /\ d.venue = todo[k].venue

Sequential ==
    /\ last'.fetched =>
         /\ pc = "collect"
         /\ k <= Len(todo)
         /\ success_count + fail_count = k - 1
         /\ \/ /\ k' = k + 1
               /\ pc' = "collect"
               /\ fail_count' = fail_count + 1
               /\ success_count' = success_count
            \/ /\ k' = k
               /\ pc' = "save"
               /\ ~IsNone(data')
               /\ PayloadOfEntry(Val(data'))
               /\ fail_count' = fail_count
               /\ success_count' = success_count
    /\ last'.wrote =>
         /\ pc = "save"
         /\ ~IsNone(data)
         /\ PayloadOfEntry(Val(data))
         /\ k' = k + 1
         /\ pc' = "collect"
         /\ success_count' + fail_count' = k
    /\ pc' = "save" =>
         \/ last'.fetched
         \/ pc = "save" /\ data' = data /\ k' = k
    /\ (pc = "save" /\ ProcessStep) =>
         \/ last'.wrote
         \/ /\ escaped'
            /\ pc' = "exited"
            /\ k' = k
            /\ success_count' = success_count
            /\ fail_count' = fail_count
    /\ InLoop =>
         /\ todo' = todo
         /\ k' \in {k, k + 1}
         /\ k' = k + 1 =>
              success_count' + fail_count' = success_count + fail_count + 1

\* C15: within one run the entries are handled in sequence and without
\* retry: an entry is fetched only when every entry before it has been
\* counted as committed or failed, the fetch is followed by the entry's count
\* as failed or by its one write attempt, a write is attempted only with the
\* payload that entry's fetch and derivation produced, and the loop never
\* stays at or returns to an entry once it is counted (a save that cannot open
\* the database ends the process: no entry is handled after it).
C15_Sequential == [][Sequential]_vars

\* Two entries handled in turn: one failed and one committed, the second
\* written after the first was counted.
C15_Witness ==
    /\ pc = "collect"
    /\ Len(todo) = 2
    /\ k = 3
    /\ last.op = "save"
    /\ last.committed
    /\ success_count = 1
    /\ fail_count = 1

\* In the loop the two counters add up to the entries handled so far.
TallyInLoop ==
    pc \in {"collect", "save"} =>
        /\ success_count + fail_count = k - 1
        /\ k <= Len(todo) + 1

TallyStep ==
    /\ runs' = runs + 1 =>
         /\ success_count' = 0
         /\ fail_count' = 0
         /\ (mode = "periodic" /\ ~escaped') =>
              Len(todo') \in {Cardinality(DOMAIN VENUE_COORDS),
                              Cardinality(DOMAIN VENUE_COORDS \cap test_venues)}
         /\ (mode = "scheduled" /\ ~escaped') =>
              Len(todo') = Cardinality({i \in 1..Len(races') :
                               /\ clock <= StartTime(races'[i])
                               /\ StartTime(races'[i]) <= clock + 48 * TicksPerHour})
    /\ (InLoop /\ k' = k + 1) =>
         \/ success_count' = success_count + 1 /\ fail_count' = fail_count
         \/ success_count' = success_count /\ fail_count' = fail_count + 1
    /\ (InLoop /\ k' = k) =>
         /\ success_count' = success_count
         /\ fail_count' = fail_count
    /\ InLoop =>
         /\ (success_count' = success_count + 1) <=> last'.committed
         /\ last'.committed =>
              /\ last'.wrote
              /\ IF mode = "periodic"
                 THEN /\ daily_seq' = daily_seq + 1
                      /\ \E r \in venue_daily_weather' : r.id = daily_seq'
                 ELSE Cardinality(weather_updates') = Cardinality(weather_updates) + 1
         /\ ~last'.committed =>
              /\ daily_seq' = daily_seq
              /\ venue_daily_weather' = venue_daily_weather
              /\ weather_updates' = weather_updates
    /\ last'.op = "finish" =>
         /\ success_count + fail_count = Len(todo)
         /\ success_count' = success_count
         /\ fail_count' = fail_count
         /\ todo' = todo

\* C16: at every point of a run's loop success_count + fail_count is the number
\* of entries handled so far; each handled entry adds exactly one to exactly
\* one of the two; success_count goes up exactly with the writes that commit
\* in this run; and when the run reaches its summary the sum is the number of
\* entries selected (the catalog or its test subset in periodic mode, the
\* entries kept by the window in scheduled mode).
C16_Tally == [](TallyInLoop) /\ [][TallyStep]_vars

\* A scheduled run has reached its summary with one entry committed and one
\* failed.
C16_Witness ==
    /\ mode = "scheduled"
    /\ pc = "exited"
    /\ last.op = "finish"
    /\ Len(todo) = 2
    /\ success_count = 1
    /\ fail_count = 1
    /\ Cardinality(weather_updates) = 1

\* The hour the payload's features were derived for, and the key of the row
\* a committed save_to_database has just stored.
KeyedByReferenceHour ==
    (mode = "periodic" /\ Commits) =>
        LET ref == Val(data).weather.race_datetime IN
        \A r \in venue_daily_weather' :
            r.id = daily_seq' =>
                /\ r.collection_date = (ref \div TicksPerHour) \div 24
                /\ r.collection_hour = (ref \div TicksPerHour) % 24

\* C17: in periodic mode every committed row is stored under the
\* (collection_date, collection_hour) of the reference hour its features
\* were derived for, also when the hour changes between the clock reading of
\* collect_venue_weather and that of save_to_database.
C17_KeyedByReferenceHour == [][KeyedByReferenceHour]_vars

\* The rows the current (or last) scheduled run has committed: ids go up by
\* one per committed row, and the run has committed success_count of them.
RunRows ==
    {r \in weather_updates : r.id > Cardinality(weather_updates) - success_count}

\* C18: in scheduled mode all rows committed in one run carry one and the same
\* collection_timestamp, the run's, and rows of different runs carry
\* different values.
C18_RunTimestamp ==
    mode = "scheduled" =>
        /\ \A r1, r2 \in RunRows :
              r1.collection_timestamp = r2.collection_timestamp
        /\ \A r1 \in RunRows : \A r2 \in weather_updates \ RunRows :
              r1.collection_timestamp # r2.collection_timestamp

====
